---- MODULE Spec2Model ----
(***************************************************************************)
(* The command interpreter of ic-repl (src/src/command.rs): Command::run   *)
(* and bind_value, as a small-step machine over the session (MyHelper).    *)
(* A recursive call of Command::run is a frame of `stack`; the `?` of a    *)
(* frame is one step of error propagation.                                 *)
(*                                                                         *)
(* Texts are sequences of one-character strings.  A path is the sequence   *)
(* of its components, each a text.  Config and Import are not modelled.    *)
(***************************************************************************)
EXTENDS Naturals, Integers, Sequences, FiniteSets, TLC

VARIABLES
    base_path,         \* helper.base_path
    env,               \* helper.env.0            : name -> value
    func_env,          \* helper.func_env.0       : name -> (args, body)
    identity_map,      \* helper.identity_map.0   : name -> identity handle
    agent_identity,    \* the identity of helper.agent
    current_identity,  \* helper.current_identity
    verbose,           \* helper.verbose
    stack,             \* the active calls of Command::run, innermost last
    status,            \* "idle" | "running" | "unwinding" | "ok" | "err" | "panic"
    error,             \* the Err being returned, "" when none
    printed,           \* the lines the last step wrote to stdout
    next_key,          \* the number of signing keys drawn from the rng so far
    runs               \* the number of top-level calls of Command::run so far

vars == <<base_path, env, func_env, identity_map, agent_identity,
          current_identity, verbose, stack, status, error, printed,
          next_key, runs>>

session == <<base_path, env, func_env, identity_map, agent_identity,
             current_identity>>

\* Bounds of the model.
MaxRuns == 2
MaxDepth == 4

-----------------------------------------------------------------------------
(* Values (candid IDLValue), expressions and commands.                     *)

BoolV(b) == [t |-> "bool", b |-> b]
NatV(n) == [t |-> "nat", n |-> n]
IntV(n) == [t |-> "int", n |-> n]
Int64V(n) == [t |-> "int64", n |-> n]
TextV(s) == [t |-> "text", s |-> s]
PrincipalV(p) == [t |-> "principal", p |-> p]
ReservedV == [t |-> "reserved"]
\* a call result that carries a cost metric next to the value proper
ProfiledV(v, cost) == [t |-> "profiled", inner |-> v, cost |-> cost]

Lit(v) == [e |-> "lit", v |-> v]
Var(id) == [e |-> "var", id |-> id]
Call(v) == [e |-> "call", v |-> v]

CmdShow(val) == [op |-> "Show", val |-> val]
CmdLet(id, val) == [op |-> "Let", id |-> id, val |-> val]
CmdAssert(binop, left, right) ==
    [op |-> "Assert", binop |-> binop, left |-> left, right |-> right]
CmdLoad(e) == [op |-> "Load", e |-> e]
CmdIdentity(id, config) == [op |-> "Identity", id |-> id, config |-> config]
CmdFunc(name, args, body) ==
    [op |-> "Func", name |-> name, args |-> args, body |-> body]
CmdWhile(cond, body) == [op |-> "While", cond |-> cond, body |-> body]
CmdIf(cond, then, else_) ==
    [op |-> "If", cond |-> cond, then |-> then, else_ |-> else_]

Empty == [kind |-> "Empty"]
Pem(path) == [kind |-> "Pem", path |-> path]
Hsm(slot_index, key_id) ==
    [kind |-> "Hsm", slot_index |-> slot_index, key_id |-> key_id]

-----------------------------------------------------------------------------
(* Texts and paths.                                                        *)

\* str::ends_with('?')
EndsWithQ(file) == Len(file) > 0 /\ file[Len(file)] = "?"

\* str::trim_end_matches('?'): every trailing '?' is removed
RECURSIVE TrimEndMatchesQ(_)
TrimEndMatchesQ(file) ==
    IF EndsWithQ(file) THEN TrimEndMatchesQ(SubSeq(file, 1, Len(file) - 1))
    ELSE file

\* mutant of Contains: the operands the other way round
ContainsSwapped(left, right) ==
    \E i \in 0..Len(right) :
        /\ i + Len(left) <= Len(right)
        /\ SubSeq(right, i + 1, i + Len(left)) = left

\* str::contains: right occurs in left as a contiguous run
Contains(left, right) ==
    \E i \in 0..Len(left) :
        /\ i + Len(right) <= Len(left)
        /\ SubSeq(left, i + 1, i + Len(right)) = right

\* the components of a path text: the runs of characters between '/'
RECURSIVE SplitFrom(_, _, _)
SplitFrom(file, i, cur) ==
    IF i > Len(file) THEN (IF cur = <<>> THEN <<>> ELSE <<cur>>)
    ELSE IF file[i] = "/"
         THEN (IF cur = <<>> THEN <<>> ELSE <<cur>>) \o SplitFrom(file, i + 1, <<>>)
         ELSE SplitFrom(file, i + 1, Append(cur, file[i]))

Components(file) == SplitFrom(file, 1, <<>>)

IsAbsolute(file) == Len(file) > 0 /\ file[1] = "/"

\* utils::resolve_path: an absolute file stands, a relative one is joined to base
resolve_path(base, file) ==
    IF IsAbsolute(file) THEN Components(file) ELSE base \o Components(file)

\* Path::parent
Parent(path) == SubSeq(path, 1, Len(path) - 1)

-----------------------------------------------------------------------------
(* Expression evaluation, the binding policy and the assertion protocol.   *)

Insert(map, k, v) == [x \in DOMAIN map \cup {k} |-> IF x = k THEN v ELSE map[x]]

EmptyMap == [x \in {} |-> 0]

\* Exp::eval: a literal is its value, a variable is looked up in the
\* bindings (an unbound one is an error), a call yields its result
Eval(exp, bindings) ==
    CASE exp.e = "lit" -> [ok |-> TRUE, v |-> exp.v]
      [] exp.e = "call" -> [ok |-> TRUE, v |-> exp.v]
      [] exp.e = "var" ->
            IF exp.id \in DOMAIN bindings
            THEN [ok |-> TRUE, v |-> bindings[exp.id]]
            ELSE [ok |-> FALSE]

\* Exp::is_call
is_call(exp) == exp.e = "call"

\* profiling::may_extract_profiling: the value proper and the cost, if any
may_extract_profiling(v) ==
    IF v.t = "profiled" THEN [v |-> v.inner, has_cost |-> TRUE, cost |-> v.cost]
    ELSE [v |-> v, has_cost |-> FALSE]

\* mutant of bind_value: a call result without a cost clears the cost bound
\* under the name before
bind_value_clearing(bindings, id, v, call) ==
    LET r == may_extract_profiling(v)
        cost_id == "__cost_" \o id
    IN  IF call /\ r.has_cost
        THEN Insert(Insert(bindings, cost_id, Int64V(r.cost)), id, r.v)
        ELSE IF call
        THEN Insert([x \in DOMAIN bindings \ {cost_id} |-> bindings[x]], id, r.v)
        ELSE Insert(bindings, id, v)

\* mutant of bind_value: the cost is extracted whether or not the value is
\* the result of a call
bind_value_any(bindings, id, v, call) ==
    LET r == may_extract_profiling(v)
        withCost == IF r.has_cost
                    THEN Insert(bindings, "__cost_" \o id, Int64V(r.cost))
                    ELSE bindings
    IN  Insert(withCost, id, r.v)

\* bind_value, lines 250-259: the bindings after the call
bind_value(bindings, id, v, call) ==
    IF call
    THEN LET r == may_extract_profiling(v)
             withCost == IF r.has_cost
                         THEN Insert(bindings, "__cost_" \o id, Int64V(r.cost))
                         ELSE bindings
         IN  Insert(withCost, id, r.v)
    ELSE Insert(bindings, id, v)

\* mutant of bind_print: the value is printed in full whatever the mode
bind_print_full(v, display, verb) ==
    IF display THEN << [k |-> "value", v |-> v] >> ELSE <<>>

\* bind_value, lines 243-249: what the call prints
bind_print(v, display, verb) ==
    IF display
    THEN IF verb THEN << [k |-> "value", v |-> v] >>
         ELSE IF v.t = "text" THEN << [k |-> "text", v |-> v.s] >>
         ELSE <<>>
    ELSE <<>>

\* IDLValue::value_ty
value_ty(v) == v.t

\* IDLValue::annotate_type(false, env, ty) of candid: a value keeps its own
\* type, a nat is also an int, everything is reserved; nothing else converts
annotate_type(v, ty) ==
    CASE ty = "reserved" -> [ok |-> TRUE, v |-> ReservedV]
      [] ty # "reserved" /\ v.t = ty -> [ok |-> TRUE, v |-> v]
      [] ty = "int" /\ v.t = "nat" -> [ok |-> TRUE, v |-> IntV(v.n)]
      [] OTHER -> [ok |-> FALSE]

\* mutant of SubEqualHolds: the re-interpreted value is dropped and the
\* values are compared as they came
SubEqualRaw(left, right) ==
    IF left.t = "text" /\ right.t = "text"
    THEN Contains(left.s, right.s)
    ELSE left = right

\* BinOp::SubEqual, lines 79-94: TRUE when no assertion of the arm fails
SubEqualHolds(left, right) ==
    IF left.t = "text" /\ right.t = "text"
    THEN Contains(left.s, right.s)
    ELSE LET l_ty == value_ty(left)
             r_ty == value_ty(right)
             al == annotate_type(left, r_ty)
             ar == annotate_type(right, l_ty)
         IN  IF al.ok THEN al.v = right
             ELSE IF ar.ok THEN left = ar.v
             ELSE left = right

\* the match on op, lines 77-96
AssertHolds(binop, left, right) ==
    CASE binop = "Equal" -> left = right
      [] binop = "SubEqual" -> SubEqualHolds(left, right)
      [] binop = "NotEqual" -> left # right

-----------------------------------------------------------------------------
(* The files of the model.  A script text is a sequence of elements: a     *)
(* character, or the source slice of one command.                          *)

Ch(c) == [ch |-> c]
Src(cmd) == [ch |-> "cmd", cmd |-> cmd]
Slices(cmds) == [i \in 1..Len(cmds) |-> Src(cmds[i])]

Script(text) == [text |-> text, pem |-> "none"]
PemFile(format, key) == [text |-> <<Ch("-")>>, pem |-> format, key |-> key]

Dir == << <<"x">> >>
Sub == << <<"x">>, <<"s">> >>

tTrue == Lit(BoolV(TRUE))
tFalse == Lit(BoolV(FALSE))
LoadText(file) == CmdLoad(Lit(TextV(file)))

\* /x/a loads s/b and then c; /x/s/b loads c, which is /x/s/c there
ScriptA == <<LoadText(<<"s", "/", "b">>), LoadText(<<"c">>)>>
ScriptB == <<LoadText(<<"c">>), CmdIdentity("b", Empty), LoadText(<<"m", "?">>)>>
ScriptC == <<CmdLet("v", Lit(NatV(5)))>>
ScriptSC == <<CmdLet("v", tTrue)>>
\* /x/s/f fails at its second command
ScriptF == <<CmdLet("v", tFalse), LoadText(<<"m">>), CmdLet("v", Lit(NatV(5)))>>
\* /x/s/r loads itself
ScriptR == <<LoadText(<<"/", "x", "/", "s", "/", "r">>)>>
\* /x/w loops until v is no boolean; /x/l loops once
ScriptW == <<CmdLet("v", tTrue),
             CmdWhile(Var("v"), <<CmdShow(Var("v")), CmdLet("v", Lit(NatV(5)))>>),
             CmdLet("v", tFalse)>>
ScriptL == <<CmdLet("v", tTrue),
             CmdWhile(Var("v"), <<CmdLet("v", tFalse), CmdIdentity("a", Empty)>>),
             CmdShow(Lit(TextV(<<"a">>)))>>
\* /x/p fails an assertion inside a loaded If
ScriptP == <<CmdIf(tTrue, <<CmdAssert("Equal", Lit(NatV(5)), Lit(IntV(5))),
                           CmdLet("v", tTrue)>>, <<>>),
             CmdLet("v", tFalse)>>

\* /x/d selects a, then b, then a again
ScriptD == <<CmdIdentity("a", Empty), CmdIdentity("b", Empty), CmdIdentity("a", Empty)>>
\* /x/n fails inside an If inside a While
ScriptN == <<CmdWhile(tTrue,
                <<CmdIf(tTrue, <<CmdLet("v", tFalse), LoadText(<<"m">>),
                                 CmdLet("v", tTrue)>>, <<>>),
                  CmdLet("v", Lit(NatV(5)))>>),
             CmdLet("v", Lit(NatV(5)))>>

\* /x/e defines foo, then bar, then foo again
ScriptE == <<CmdFunc("foo", <<"y">>, <<CmdShow(Var("y"))>>),
             CmdFunc("bar", <<"y">>, <<CmdLet("v", Var("y"))>>),
             CmdFunc("foo", <<>>, <<CmdLet("v", tTrue)>>)>>

FileSystem ==
    (Dir \o << <<"e">> >> :> Script(Slices(ScriptE))) @@
    (Dir \o << <<"d">> >> :> Script(Slices(ScriptD))) @@
    (Dir \o << <<"n">> >> :> Script(Slices(ScriptN))) @@
    (Dir \o << <<"a">> >> :> Script(Slices(ScriptA))) @@
    (Sub \o << <<"b">> >> :> Script(Slices(ScriptB))) @@
    (Dir \o << <<"c">> >> :> Script(Slices(ScriptC))) @@
    (Sub \o << <<"c">> >> :> Script(Slices(ScriptSC))) @@
    (Sub \o << <<"f">> >> :> Script(Slices(ScriptF))) @@
    (Sub \o << <<"r">> >> :> Script(Slices(ScriptR))) @@
    (Dir \o << <<"w">> >> :> Script(Slices(ScriptW))) @@
    (Dir \o << <<"l">> >> :> Script(Slices(ScriptL))) @@
    (Dir \o << <<"p">> >> :> Script(Slices(ScriptP))) @@
    \* a #! line, a newline, one command
    (Dir \o << <<"h">> >> :>
        Script(<<Ch("#"), Ch("!"), Ch("s"), Ch("nl")>> \o Slices(ScriptSC))) @@
    \* a #! line and nothing after it
    (Dir \o << <<"i">> >> :> Script(<<Ch("#"), Ch("!"), Ch("s")>>)) @@
    \* a reference to an environment variable that is not set
    (Dir \o << <<"u">> >> :> Script(<<Ch("$")>> \o Slices(ScriptC))) @@
    \* text the grammar rejects
    (Dir \o << <<"g">> >> :> Script(<<Ch("s")>> \o Slices(ScriptC))) @@
    (Dir \o << <<"k">> >> :> PemFile("secp", 10)) @@
    (Sub \o << <<"k">> >> :> PemFile("basic", 11))

\* std::fs::read_to_string
read_to_string(path) ==
    IF path \in DOMAIN FileSystem
    THEN [ok |-> TRUE, text |-> FileSystem[path].text]
    ELSE [ok |-> FALSE]

\* str::starts_with("#!")
StartsWithShebang(script) ==
    Len(script) >= 2 /\ script[1].ch = "#" /\ script[2].ch = "!"

\* str::find('\n'), 0-based, with unwrap_or(0)
FindNewline(script) ==
    LET hits == {i \in 1..Len(script) : script[i].ch = "nl"}
    IN  IF hits = {} THEN 0
        ELSE (CHOOSE i \in hits : \A j \in hits : i <= j) - 1

\* lines 181-184: script.drain(..line_end) when the script starts with "#!"
StripShebang(script) ==
    IF StartsWithShebang(script)
    THEN SubSeq(script, FindNewline(script) + 1, Len(script))
    ELSE script

\* shellexpand::env: a reference to a variable that is not set is an error
ShellExpand(script) ==
    IF \E i \in 1..Len(script) : script[i].ch = "$"
    THEN [ok |-> FALSE]
    ELSE [ok |-> TRUE, text |-> script]

\* pretty_parse::<Commands>: white space is skipped, every command slice
\* yields its command, any other character is a parse error
SelectCmds(script) == SelectSeq(script, LAMBDA el : el.ch = "cmd")
pretty_parse(script) ==
    IF \E i \in 1..Len(script) : script[i].ch \notin {"cmd", "nl", " "}
    THEN [ok |-> FALSE]
    ELSE [ok |-> TRUE,
          cmds |-> [i \in 1..Len(SelectCmds(script)) |-> SelectCmds(script)[i].cmd]]

-----------------------------------------------------------------------------
(* The machine.                                                            *)

Top == stack[Len(stack)]
Pop(stk) == SubSeq(stk, 1, Len(stk) - 1)
Advance(stk) == [stk EXCEPT ![Len(stk)].pc = @ + 1]

\* a command of the innermost list is about to run
HasCur == status = "running" /\ stack # <<>> /\ Top.pc <= Len(Top.cmds)
Cur == Top.cmds[Top.pc]
\* the innermost list has run to its end
AtEnd == status = "running" /\ stack # <<>> /\ Top.pc > Len(Top.cmds)

\* lines 190-192: a loaded command is echoed before it runs
Echo == IF Top.kind = "load" /\ verbose THEN << [k |-> "echo", v |-> Cur] >> ELSE <<>>

\* the command returns Ok(()), line 223
Continue(out) ==
    /\ stack' = Advance(stack)
    /\ printed' = Echo \o out
    /\ UNCHANGED <<status, error>>

\* the command returns Err
Fail(msg) ==
    /\ status' = "unwinding"
    /\ error' = msg
    /\ printed' = Echo
    /\ UNCHANGED stack

Init ==
    /\ base_path = Dir
    /\ env = EmptyMap
    /\ func_env = EmptyMap
    /\ identity_map = EmptyMap
    /\ agent_identity = [kind |-> "anonymous"]
    /\ current_identity = "anon"
    /\ verbose \in BOOLEAN
    /\ stack = <<>>
    /\ status = "idle"
    /\ error = ""
    /\ printed = <<>>
    /\ next_key = 0
    /\ runs = 0

\* Command::Let, lines 66-70
RunLet ==
    /\ HasCur /\ Cur.op = "Let"
    /\ LET v == Eval(Cur.val, env)
       IN  IF ~v.ok
           THEN Fail("eval") /\ UNCHANGED env
           ELSE /\ env' = bind_value(env, Cur.id, v.v, is_call(Cur.val))
                /\ Continue(bind_print(v.v, FALSE, verbose))
    /\ UNCHANGED <<base_path, func_env, identity_map, agent_identity,
                   current_identity, verbose, next_key, runs>>

\* Command::Show, lines 107-117
RunShow ==
    /\ HasCur /\ Cur.op = "Show"
    /\ LET v == Eval(Cur.val, env)
       IN  IF ~v.ok
           THEN Fail("eval") /\ UNCHANGED env
           ELSE /\ env' = bind_value(env, "_", v.v, is_call(Cur.val))
                /\ Continue(bind_print(v.v, TRUE, verbose)
                            \o (IF verbose THEN << [k |-> "duration"] >> ELSE <<>>))
    /\ UNCHANGED <<base_path, func_env, identity_map, agent_identity,
                   current_identity, verbose, next_key, runs>>

\* mutant of InsertFunc: a name that is defined keeps its definition
InsertFuncIfAbsent(map, name, args, body) ==
    IF name \in DOMAIN map THEN map ELSE Insert(map, name, <<args, body>>)

\* line 72: (args, body) is stored under the name
InsertFunc(map, name, args, body) == Insert(map, name, <<args, body>>)

\* Command::Func, lines 71-73
RunFunc ==
    /\ HasCur /\ Cur.op = "Func"
    /\ func_env' = InsertFunc(func_env, Cur.name, Cur.args, Cur.body)
    /\ Continue(<<>>)
    /\ UNCHANGED <<base_path, env, identity_map, agent_identity,
                   current_identity, verbose, next_key, runs>>

\* Command::Assert, lines 74-97: a failed assert!/assert_eq!/assert_ne! panics
RunAssert ==
    /\ HasCur /\ Cur.op = "Assert"
    /\ LET left == Eval(Cur.left, env)
           right == Eval(Cur.right, env)
       IN  IF ~left.ok \/ ~right.ok
           THEN Fail("eval")
           ELSE IF AssertHolds(Cur.binop, left.v, right.v)
           THEN Continue(<<>>)
           ELSE /\ status' = "panic"
                /\ error' = "assertion failed"
                /\ printed' = Echo
                /\ UNCHANGED stack
    /\ UNCHANGED <<base_path, env, func_env, identity_map, agent_identity,
                   current_identity, verbose, next_key, runs>>

\* mutant of ResolveEmpty: the cache is not consulted
ResolveEmptyFresh(map, id, keys) ==
    [ok |-> TRUE, identity |-> [kind |-> "basic", pub |-> keys + 1], fresh |-> TRUE]

\* IdentityConfig::Empty, lines 145-150: the cached identity of the name,
\* else a new one from a key drawn from the rng
ResolveEmpty(map, id, keys) ==
    IF id \in DOMAIN map
    THEN [ok |-> TRUE, identity |-> map[id], fresh |-> FALSE]
    ELSE [ok |-> TRUE, identity |-> [kind |-> "basic", pub |-> keys + 1], fresh |-> TRUE]

\* mutant of ResolvePem: a file that holds no key yields a default identity
ResolvePemLenient(base, pem_path) ==
    LET path == resolve_path(base, pem_path)
        format == IF path \in DOMAIN FileSystem THEN FileSystem[path].pem ELSE "none"
    IN  IF format \in {"secp", "basic"}
        THEN [ok |-> TRUE, identity |-> [kind |-> format, pub |-> FileSystem[path].key],
              fresh |-> FALSE]
        ELSE [ok |-> TRUE, identity |-> [kind |-> "basic", pub |-> 0], fresh |-> FALSE]

\* IdentityConfig::Pem, lines 138-144: a Secp256k1 key, else an Ed25519 key
ResolvePem(base, pem_path) ==
    LET path == resolve_path(base, pem_path)
        format == IF path \in DOMAIN FileSystem THEN FileSystem[path].pem ELSE "none"
    IN  IF format = "secp"
        THEN [ok |-> TRUE, identity |-> [kind |-> "secp", pub |-> FileSystem[path].key],
              fresh |-> FALSE]
        ELSE IF format = "basic"
        THEN [ok |-> TRUE, identity |-> [kind |-> "basic", pub |-> FileSystem[path].key],
              fresh |-> FALSE]
        ELSE [ok |-> FALSE]

\* IdentityConfig::Hsm, lines 121-137: the device decides whether it opens
ResolveHsm(slot_index, key_id, hw_ok) ==
    IF hw_ok
    THEN [ok |-> TRUE, identity |-> [kind |-> "hsm", pub |-> 20 + slot_index],
          fresh |-> FALSE]
    ELSE [ok |-> FALSE]

\* the match on config, lines 120-151
ResolveIdentity(config, id, map, base, keys, hw_ok) ==
    CASE config.kind = "Hsm" -> ResolveHsm(config.slot_index, config.key_id, hw_ok)
      [] config.kind = "Pem" -> ResolvePem(base, config.path)
      [] config.kind = "Empty" -> ResolveEmpty(map, id, keys)

\* mutant of InsertIdentity: a cached name keeps its identity
InsertIdentityIfAbsent(map, id, identity) ==
    IF id \in DOMAIN map THEN map ELSE Insert(map, id, identity)

\* mutant of InsertIdentity: the cache holds the selected identity only
InsertIdentityOnly(map, id, identity) == [x \in {id} |-> identity]

\* lines 152-155: the identity is cached under the name
InsertIdentity(map, id, identity) == Insert(map, id, identity)

\* Identity::sender: the principal of the identity's public key
Sender(identity) == identity.pub

\* Command::Identity, lines 118-162.  Identity::sender returns a Result; the
\* model lets it fail for a hardware identity only.
RunIdentity ==
    /\ HasCur /\ Cur.op = "Identity"
    /\ \E hw_ok \in BOOLEAN, sender_ok \in BOOLEAN :
        LET id == Cur.id
            r == ResolveIdentity(Cur.config, id, identity_map, base_path, next_key, hw_ok)
        IN  /\ (Cur.config.kind # "Hsm" => hw_ok)
            /\ IF ~r.ok
               THEN /\ sender_ok
                    /\ Fail("identity")
                    /\ UNCHANGED <<env, identity_map, agent_identity,
                                   current_identity, next_key>>
               ELSE /\ (r.identity.kind # "hsm" => sender_ok)
                    /\ identity_map' = InsertIdentity(identity_map, id, r.identity)
                    /\ next_key' = IF r.fresh THEN next_key + 1 ELSE next_key
                    /\ IF ~sender_ok
                       THEN /\ Fail("sender")
                            /\ UNCHANGED <<env, agent_identity, current_identity>>
                       ELSE /\ agent_identity' = r.identity
                            /\ current_identity' = id
                            /\ env' = Insert(env, id, PrincipalV(Sender(r.identity)))
                            /\ Continue(<< [k |-> "identity", v |-> Sender(r.identity)] >>)
    /\ UNCHANGED <<base_path, func_env, verbose, runs>>

\* mutant of IsFailSafe: the mark is not recognised
NeverFailSafe(file) == FALSE

\* line 169: a trailing '?' marks the load fail-safe
IsFailSafe(file) == EndsWithQ(file)

\* mutant of ReadFailureIsNoOp: every unreadable file is passed over
AnyReadFailureIsNoOp(read_ok, fail_safe) == ~read_ok

\* line 177: an unreadable file is passed over when the load is fail-safe
ReadFailureIsNoOp(read_ok, fail_safe) == ~read_ok /\ fail_safe

\* mutant of LoadDir: the file's own path instead of its parent
LoadDirIsPath(path) == path

\* line 188: the working directory of the loaded commands
LoadDir(path) == Parent(path)

\* line 195: the working directory after the loaded commands ran
RestoredBase(frame) == frame.old_base

\* Command::Load, lines 163-188, up to the first loaded command
RunLoad ==
    /\ HasCur /\ Cur.op = "Load"
    /\ LET e == Eval(Cur.e, env)
       IN  IF ~e.ok
           THEN Fail("eval") /\ UNCHANGED base_path
           ELSE IF e.v.t # "text"
           THEN Fail("load needs to be a file path") /\ UNCHANGED base_path
           ELSE
             LET fail_safe == IsFailSafe(e.v.s)
                 file == IF fail_safe THEN TrimEndMatchesQ(e.v.s) ELSE e.v.s
                 old_base == base_path
                 path == resolve_path(old_base, file)
                 read_result == read_to_string(path)
             IN  IF ReadFailureIsNoOp(read_result.ok, fail_safe)
                 THEN Continue(<<>>) /\ UNCHANGED base_path
                 ELSE IF ~read_result.ok
                 THEN Fail("Cannot read") /\ UNCHANGED base_path
                 ELSE
                   LET script == ShellExpand(StripShebang(read_result.text))
                   IN  IF ~script.ok
                       THEN Fail("substitution") /\ UNCHANGED base_path
                       ELSE IF ~pretty_parse(script.text).ok
                       THEN Fail("parse") /\ UNCHANGED base_path
                       ELSE /\ Len(stack) < MaxDepth
                            /\ base_path' = LoadDir(path)
                            /\ stack' = Append(stack,
                                   [kind |-> "load", cmds |-> pretty_parse(script.text).cmds,
                                    pc |-> 1, old_base |-> old_base, path |-> path,
                                    file |-> file, fail_safe |-> fail_safe])
                            /\ printed' = Echo
                            /\ UNCHANGED <<status, error>>
    /\ UNCHANGED <<env, func_env, identity_map, agent_identity,
                   current_identity, verbose, next_key, runs>>

\* Command::Load, line 195 and the Ok(()) of line 223
LoadReturn ==
    /\ AtEnd /\ Top.kind = "load"
    /\ base_path' = RestoredBase(Top)
    /\ stack' = Advance(Pop(stack))
    /\ printed' = <<>>
    /\ UNCHANGED <<env, func_env, identity_map, agent_identity, current_identity,
                   verbose, status, error, next_key, runs>>

\* mutant of CondOutcome: a condition that is no boolean counts as false
CondOutcomeLenient(c) ==
    IF ~c.ok THEN "eval"
    ELSE IF c.v.t = "bool" /\ c.v.b THEN "true" ELSE "false"

\* lines 198-200 and 212-214: what the evaluated condition leads to
CondOutcome(c) ==
    IF ~c.ok THEN "eval"
    ELSE IF c.v.t # "bool" THEN "type"
    ELSE IF c.v.b THEN "true" ELSE "false"

\* mutant of IfBranch: the branches the other way round
IfBranchSwapped(c, then, else_) == IF c = "true" THEN else_ ELSE then

\* lines 201-209: then on true, else_ on false
IfBranch(c, then, else_) == IF c = "true" THEN then ELSE else_

\* Command::If, lines 197-201 and 205: the branch is chosen
RunIf ==
    /\ HasCur /\ Cur.op = "If"
    /\ LET c == CondOutcome(Eval(Cur.cond, env))
       IN  CASE c = "eval" -> Fail("eval")
             [] c = "type" -> Fail("if condition is not a boolean expression")
             [] OTHER ->
                  /\ stack' = Append(stack,
                         [kind |-> "if", pc |-> 1,
                          cmds |-> IfBranch(c, Cur.then, Cur.else_)])
                  /\ printed' = Echo
                  /\ UNCHANGED <<status, error>>
    /\ UNCHANGED <<base_path, env, func_env, identity_map, agent_identity,
                   current_identity, verbose, next_key, runs>>

\* Command::If, the end of the branch and the Ok(()) of line 223
IfReturn ==
    /\ AtEnd /\ Top.kind = "if"
    /\ stack' = Advance(Pop(stack))
    /\ printed' = <<>>
    /\ UNCHANGED <<base_path, env, func_env, identity_map, agent_identity,
                   current_identity, verbose, status, error, next_key, runs>>

\* Command::While, lines 211-217: the condition is evaluated; the loop is
\* left on false, the body is entered on true
RunWhile ==
    /\ HasCur /\ Cur.op = "While"
    /\ LET c == CondOutcome(Eval(Cur.cond, env))
       IN  CASE c = "eval" -> Fail("eval")
             [] c = "type" -> Fail("while condition is not a boolean expression")
             [] c = "false" -> Continue(<<>>)
             [] c = "true" ->
                  /\ stack' = Append(stack,
                         [kind |-> "while", pc |-> 1, cmds |-> Cur.body])
                  /\ printed' = Echo
                  /\ UNCHANGED <<status, error>>
    /\ UNCHANGED <<base_path, env, func_env, identity_map, agent_identity,
                   current_identity, verbose, next_key, runs>>

\* Command::While, lines 218-221: the body has run, the loop starts over
\* at the condition
WhileRepeat ==
    /\ AtEnd /\ Top.kind = "while"
    /\ stack' = Pop(stack)
    /\ printed' = <<>>
    /\ UNCHANGED <<base_path, env, func_env, identity_map, agent_identity,
                   current_identity, verbose, status, error, next_key, runs>>

\* mutant of Propagates: a fail-safe Load drops the Err of a loaded command
PropagatesUnlessFailSafe(frame) == ~(frame.kind = "load" /\ frame.fail_safe)

\* mutant of Propagates: the Err of a branch command is dropped by its If
PropagatesExceptIf(frame) == frame.kind # "if"

\* the `?` of lines 193, 203, 207 and 219: the Err of a command leaves the
\* enclosing call at once
Propagates(frame) == TRUE

\* line 193: the working directory when a loaded command returned Err
BaseAfterErr(frame, base) == base

\* an Err passes one enclosing call of Command::run
Propagate ==
    /\ status = "unwinding" /\ stack # <<>> /\ Top.kind # "top"
    /\ IF Propagates(Top)
       THEN /\ stack' = Pop(stack)
            /\ base_path' = IF Top.kind = "load" THEN BaseAfterErr(Top, base_path)
                            ELSE base_path
            /\ UNCHANGED <<status, error>>
       ELSE /\ stack' = Advance(stack)
            /\ status' = "running"
            /\ error' = ""
            /\ UNCHANGED base_path
    /\ printed' = <<>>
    /\ UNCHANGED <<env, func_env, identity_map, agent_identity, current_identity,
                   verbose, next_key, runs>>

\* the top-level call returns Err to its caller
ReturnErr ==
    /\ status = "unwinding" /\ stack # <<>> /\ Top.kind = "top"
    /\ stack' = <<>>
    /\ status' = "err"
    /\ printed' = <<>>
    /\ UNCHANGED <<base_path, env, func_env, identity_map, agent_identity,
                   current_identity, verbose, error, next_key, runs>>

\* the top-level call returns Ok(())
ReturnOk ==
    /\ AtEnd /\ Top.kind = "top"
    /\ stack' = <<>>
    /\ status' = "ok"
    /\ printed' = <<>>
    /\ UNCHANGED <<base_path, env, func_env, identity_map, agent_identity,
                   current_identity, verbose, error, next_key, runs>>

-----------------------------------------------------------------------------
(* The commands the caller hands to Command::run.                          *)

tA == TextV(<<"a">>)
tAB == TextV(<<"a", "b">>)
tBA == TextV(<<"b", "a">>)
Body1 == <<CmdLet("v", tFalse), LoadText(<<"m">>), CmdLet("v", tTrue)>>
Body2 == <<CmdLet("v", Lit(NatV(5)))>>

TopCommands ==
    { LoadText(<<"a">>), LoadText(<<"s", "/", "b">>), LoadText(<<"s", "/", "f">>),
      LoadText(<<"s", "/", "f", "?">>), LoadText(<<"m">>), LoadText(<<"m", "?">>),
      LoadText(<<"c">>), LoadText(<<"/", "x", "/", "s", "/", "r">>),
      LoadText(<<"d">>), LoadText(<<"n">>), LoadText(<<"e">>),
      LoadText(<<"w">>), LoadText(<<"l">>), LoadText(<<"p">>), LoadText(<<"h">>),
      LoadText(<<"i">>), LoadText(<<"u">>), LoadText(<<"g">>), LoadText(<<"u", "?">>),
      LoadText(<<"g", "?">>), LoadText(<<"i", "?">>),
      CmdLoad(Lit(NatV(5))), CmdLoad(Var("v")),
      CmdIdentity("a", Empty), CmdIdentity("b", Empty), CmdIdentity("a", Pem(<<"k">>)),
      CmdIdentity("a", Pem(<<"m">>)), CmdIdentity("b", Hsm(0, "k")),
      CmdLet("x", Call(ProfiledV(NatV(5), 7))), CmdLet("x", Lit(ProfiledV(NatV(5), 7))),
      CmdLet("x", Call(NatV(6))), CmdLet("v", tTrue),
      CmdShow(Lit(tA)), CmdShow(Call(ProfiledV(NatV(5), 7))), CmdShow(Var("u")),
      CmdAssert("SubEqual", Lit(tAB), Lit(tA)), CmdAssert("SubEqual", Lit(tA), Lit(tAB)),
      CmdAssert("SubEqual", Lit(tAB), Lit(tBA)),
      CmdAssert("SubEqual", Lit(IntV(5)), Lit(NatV(5))),
      CmdAssert("SubEqual", Lit(NatV(5)), Lit(IntV(5))),
      CmdAssert("SubEqual", Lit(NatV(5)), Lit(IntV(6))),
      CmdAssert("SubEqual", Lit(NatV(5)), Lit(BoolV(TRUE))),
      CmdAssert("SubEqual", Lit(BoolV(TRUE)), Lit(BoolV(TRUE))),
      CmdAssert("SubEqual", Lit(tA), Lit(ReservedV)),
      CmdAssert("SubEqual", Lit(ReservedV), Lit(tA)),
      CmdAssert("SubEqual", Var("v"), Lit(IntV(5))),
      CmdAssert("Equal", Lit(NatV(5)), Lit(NatV(5))),
      CmdAssert("NotEqual", Lit(NatV(5)), Lit(NatV(5))),
      CmdIf(tTrue, Body1, Body2), CmdIf(tFalse, Body1, Body2),
      CmdIf(Lit(NatV(5)), Body1, Body2), CmdIf(Var("v"), Body2, Body1),
      CmdWhile(Lit(NatV(5)), Body2), CmdWhile(Var("v"), Body2),
      CmdWhile(Var("v"), Body1),
      CmdFunc("foo", <<"y">>, Body1), CmdFunc("foo", <<>>, Body2),
      CmdFunc("bar", <<"y">>, Body2) }

\* the caller calls Command::run(cmd, helper), line 55; after an Err the
\* caller keeps the helper and may call again
Submit(cmd) ==
    /\ status \in {"idle", "ok", "err"}
    /\ runs < MaxRuns
    /\ runs' = runs + 1
    /\ stack' = << [kind |-> "top", pc |-> 1, cmds |-> <<cmd>>] >>
    /\ status' = "running"
    /\ error' = ""
    /\ printed' = <<>>
    /\ UNCHANGED <<base_path, env, func_env, identity_map, agent_identity,
                   current_identity, verbose, next_key>>

Start == \E cmd \in TopCommands : Submit(cmd)

Next ==
    \/ Start
    \/ RunLet
    \/ RunShow
    \/ RunFunc
    \/ RunAssert
    \/ RunIdentity
    \/ RunLoad
    \/ LoadReturn
    \/ RunIf
    \/ IfReturn
    \/ RunWhile
    \/ WhileRepeat
    \/ Propagate
    \/ ReturnErr
    \/ ReturnOk

Spec == Init /\ [][Next]_vars

-----------------------------------------------------------------------------
(* Properties.                                                             *)

\* the command the innermost list ran last
Prev == Top.cmds[Top.pc - 1]
HasPrev == stack # <<>> /\ Top.pc > 1

LoadFrames == {i \in 1..Len(stack) : stack[i].kind = "load"}
Innermost(S) == CHOOSE i \in S : \A j \in S : j <= i

\* a call of Load ends in this step: its frame leaves the stack
LoadCallEnds == stack # <<>> /\ Top.kind = "load" /\ Len(stack') < Len(stack)

\* C1: every Load call, whether its commands all succeed or one of them
\* fails, leaves the working directory as it was when the call began.
C1_LoadRestoresBasePath ==
    [][LoadCallEnds => base_path' = Top.old_base]_vars

\* C2: while the commands of a loaded script run, the working directory is
\* the parent of the script's resolved path; a load inside a loaded script
\* starts from, and a relative one resolves against, the directory of the
\* enclosing script; a Load that returns Ok leaves the working directory of
\* the script that loaded it.
C2_ScopeNow ==
    /\ (status = "running" /\ LoadFrames # {}) =>
           base_path = Parent(stack[Innermost(LoadFrames)].path)
    /\ \A i \in LoadFrames :
           LET outer == {j \in LoadFrames : j < i}
           IN  outer # {} =>
                 LET dir == Parent(stack[Innermost(outer)].path)
                 IN  /\ stack[i].old_base = dir
                     /\ ~IsAbsolute(stack[i].file) =>
                            stack[i].path = dir \o Components(stack[i].file)
C2_DynamicScope ==
    /\ []C2_ScopeNow
    /\ [][(LoadCallEnds /\ status = "running") => base_path' = Top.old_base]_vars

\* C2 witness: /x/a has loaded s/b, which has loaded c, found in /x/s
C2_Witness ==
    /\ status = "running" /\ Len(stack) = 4
    /\ stack[2].kind = "load" /\ stack[2].path = Dir \o << <<"a">> >>
    /\ stack[3].kind = "load" /\ stack[3].path = Sub \o << <<"b">> >>
    /\ stack[4].kind = "load" /\ stack[4].path = Sub \o << <<"c">> >>
    /\ stack[4].file = <<"c">>
    /\ base_path = Sub

\* the next command is a Load of a text whose file cannot be read
LoadUnreadable(fail_safe) ==
    /\ HasCur /\ Cur.op = "Load"
    /\ Eval(Cur.e, env).ok
    /\ Eval(Cur.e, env).v.t = "text"
    /\ LET text == Eval(Cur.e, env).v.s
       IN  /\ EndsWithQ(text) = fail_safe
           /\ resolve_path(base_path, TrimEndMatchesQ(text)) \notin DOMAIN FileSystem

\* C3: a fail-safe Load of a file that cannot be read returns Ok and changes
\* nothing: no command runs, and the working directory, the bindings, the
\* function table and the identity cache stay as they are.
C3_FailSafeLoadIsNoOp ==
    [][LoadUnreadable(TRUE) =>
          /\ stack' = Advance(stack)
          /\ status' = "running" /\ error' = ""
          /\ UNCHANGED <<base_path, env, func_env, identity_map, agent_identity,
                         current_identity>>]_vars

\* C3 witness: /x/s/b has passed over its load of "m?"
C3_Witness ==
    /\ status = "running" /\ HasPrev
    /\ Top.kind = "load" /\ Top.path = Sub \o << <<"b">> >>
    /\ Prev = LoadText(<<"m", "?">>)
    /\ base_path = Sub

\* C4: a Load that is not fail-safe, of a file that cannot be read, returns
\* an error and leaves the working directory as it was.
C4_UnreadableLoadFails ==
    [][LoadUnreadable(FALSE) =>
          /\ status' = "unwinding" /\ error' = "Cannot read"
          /\ stack' = stack
          /\ base_path' = base_path]_vars

\* C4 witness: the load of "m" in /x/s/f has failed
C4_Witness ==
    /\ status = "unwinding" /\ error = "Cannot read"
    /\ stack # <<>> /\ Top.kind = "load" /\ Top.path = Sub \o << <<"f">> >>
    /\ Cur = LoadText(<<"m">>)
    /\ base_path = Sub

\* the next command is an Identity command with the Empty configuration
EmptyIdentityNext == HasCur /\ Cur.op = "Identity" /\ Cur.config.kind = "Empty"

\* the identities of the cache
Cached == {identity_map[n] : n \in DOMAIN identity_map}

\* C5: Identity(name, Empty) takes the cached identity of a cached name, so
\* the name is bound to the same principal as before, whatever other names
\* were selected with Empty in between; a key is drawn from the rng only for
\* a name that is not cached.
C5_EmptyReusesCached ==
    [][EmptyIdentityNext =>
          /\ \A n \in DOMAIN identity_map :
                 n \in DOMAIN identity_map' /\ identity_map'[n] = identity_map[n]
          /\ IF Cur.id \in DOMAIN identity_map
             THEN /\ next_key' = next_key
                  /\ status' = "running" =>
                        /\ agent_identity' = identity_map[Cur.id]
                        /\ env'[Cur.id] = PrincipalV(Sender(identity_map[Cur.id]))
             ELSE /\ next_key' = next_key + 1
                  /\ identity_map'[Cur.id] \notin Cached]_vars

\* C5 witness: /x/d has selected a, then b, then a again, and a is bound to
\* the principal of the first key drawn
C5_Witness ==
    /\ status = "running" /\ stack # <<>>
    /\ Top.kind = "load" /\ Top.path = Dir \o << <<"d">> >> /\ Top.pc = 4
    /\ next_key = 2
    /\ current_identity = "a"
    /\ identity_map["a"] = [kind |-> "basic", pub |-> 1]
    /\ agent_identity = identity_map["a"]
    /\ env["a"] = PrincipalV(1)
    /\ env["b"] = PrincipalV(2)

\* C6: the identity cache never loses a name, and an Identity command leaves
\* the identity cached under every other name as it is.
C6_CacheGrows ==
    [][/\ DOMAIN identity_map \subseteq DOMAIN identity_map'
       /\ \A n \in DOMAIN identity_map :
              (HasCur /\ Cur.op = "Identity" /\ Cur.id = n)
              \/ identity_map'[n] = identity_map[n]]_vars

\* C6 witness: b was selected while a was cached from a key file
C6_Witness ==
    /\ DOMAIN identity_map = {"a", "b"}
    /\ identity_map["a"] = [kind |-> "secp", pub |-> 10]
    /\ current_identity = "b"
    /\ status = "ok"

\* the next command is Assert(SubEqual, ...) and both operands evaluate
SubEqualNext ==
    /\ HasCur /\ Cur.op = "Assert" /\ Cur.binop = "SubEqual"
    /\ Eval(Cur.left, env).ok /\ Eval(Cur.right, env).ok
LeftV == Eval(Cur.left, env).v
RightV == Eval(Cur.right, env).v
BothText == LeftV.t = "text" /\ RightV.t = "text"

\* right occurs in left, character by character
Occurs(left, right) ==
    \E off \in 0..Len(left) :
        /\ off + Len(right) <= Len(left)
        /\ \A k \in 1..Len(right) : left[off + k] = right[k]

\* C7: Assert(SubEqual, left, right) on two texts passes exactly when the
\* right text is a substring of the left text.
C7_SubEqualTextIsSubstring ==
    [][(SubEqualNext /\ BothText) =>
          /\ status' \in {"running", "panic"}
          /\ status' = "running" <=> Occurs(LeftV.s, RightV.s)]_vars

\* C7 witness: "a" against "ab" has failed: "ab" is no substring of "a"
C7_Witness ==
    /\ status = "panic" /\ stack # <<>>
    /\ Cur = CmdAssert("SubEqual", Lit(tA), Lit(tAB))

\* C8: Assert(SubEqual, left, right) on values that are not both texts is
\* decided by the first step that applies: left re-interpreted under right's
\* type against right; else left against right re-interpreted under left's
\* type; else left against right as they are.
C8_SubEqualCoercionOrder ==
    [][(SubEqualNext /\ ~BothText) =>
          LET al == annotate_type(LeftV, value_ty(RightV))
              ar == annotate_type(RightV, value_ty(LeftV))
              pass == \/ al.ok /\ al.v = RightV
                      \/ ~al.ok /\ ar.ok /\ LeftV = ar.v
                      \/ ~al.ok /\ ~ar.ok /\ LeftV = RightV
          IN  /\ status' \in {"running", "panic"}
              /\ status' = "running" <=> pass]_vars

\* C8 witness: int 5 against nat 5 has passed, by the second step
C8_Witness ==
    /\ status = "running" /\ HasPrev
    /\ Prev = CmdAssert("SubEqual", Lit(IntV(5)), Lit(NatV(5)))
    /\ ~annotate_type(IntV(5), "nat").ok

\* the next command is a While whose condition evaluates
WhileNext == HasCur /\ Cur.op = "While" /\ Eval(Cur.cond, env).ok
CondV == Eval(Cur.cond, env).v

\* the frame of a While body leaves the stack while no error is under way
WhileBodyEnds ==
    /\ status = "running" /\ stack # <<>> /\ Top.kind = "while"
    /\ Len(stack') < Len(stack)

\* C9: every time While evaluates its condition, a value that is no boolean
\* makes it fail with a type error without running the body, true runs the
\* body once in full and leads back to the condition, and only false makes
\* While return Ok.
C9_WhileCondition ==
    /\ [][WhileNext =>
            CASE CondV.t # "bool" ->
                    /\ status' = "unwinding"
                    /\ error' = "while condition is not a boolean expression"
                    /\ stack' = stack
                    /\ UNCHANGED session
              [] CondV.t = "bool" /\ CondV.b ->
                    /\ status' = "running"
                    /\ stack' = Append(stack, [kind |-> "while", pc |-> 1,
                                               cmds |-> Cur.body])
                    /\ UNCHANGED session
              [] CondV.t = "bool" /\ ~CondV.b ->
                    /\ status' = "running"
                    /\ stack' = Advance(stack)
                    /\ UNCHANGED session]_vars
    /\ [][WhileBodyEnds =>
            /\ Top.pc = Len(Top.cmds) + 1
            /\ stack' = Pop(stack)
            /\ status' = "running"
            /\ stack'[Len(stack')].cmds[stack'[Len(stack')].pc].op = "While"]_vars

\* C9 witness: the loop of /x/w ran its body once and fails at the second
\* evaluation of its condition, which is nat 5 by then
C9_Witness ==
    /\ status = "unwinding"
    /\ error = "while condition is not a boolean expression"
    /\ stack # <<>> /\ Top.kind = "load" /\ Top.path = Dir \o << <<"w">> >>
    /\ Cur.op = "While"
    /\ "_" \in DOMAIN env /\ env["_"] = BoolV(TRUE)
    /\ env["v"] = NatV(5)

\* what the commands act on, the working directory aside
bound == <<env, func_env, identity_map, agent_identity, current_identity>>

\* C10: the commands of a list run in order, one after the other, and the
\* first Err ends it all: from then on no command runs, the Err passes one
\* enclosing call after the other, and it reaches the top-level caller.
C10_FirstFailureAborts ==
    /\ [][(status = "running" /\ status' = "running") =>
            \/ stack' = Advance(stack)
            \/ Pop(stack') = stack /\ stack'[Len(stack')].pc = 1
            \/ stack' = Advance(Pop(stack))
            \/ stack' = Pop(stack) /\ Top.kind = "while"]_vars
    /\ [][status = "unwinding" =>
            /\ UNCHANGED bound
            /\ error' = error
            /\ \/ status' = "unwinding" /\ stack' = Pop(stack)
               \/ status' = "err" /\ Top.kind = "top" /\ stack' = <<>>]_vars
    /\ [][status = "panic" => UNCHANGED vars]_vars
    /\ [](status = "unwinding" => stack # <<>> /\ error # "")

\* C10 witness: the Err of the load in /x/n has left the If and is about to
\* leave the While; v still has the value bound before the failure
C10_Witness ==
    /\ status = "unwinding" /\ error = "Cannot read"
    /\ Len(stack) = 3
    /\ stack[2].kind = "load" /\ stack[2].path = Dir \o << <<"n">> >>
    /\ stack[3].kind = "while" /\ stack[3].cmds[stack[3].pc].op = "If"
    /\ env["v"] = BoolV(FALSE)

\* the next command is a fail-safe Load of a text whose file can be read
FailSafeReadable ==
    /\ HasCur /\ Cur.op = "Load"
    /\ Eval(Cur.e, env).ok
    /\ Eval(Cur.e, env).v.t = "text"
    /\ EndsWithQ(Eval(Cur.e, env).v.s)
    /\ resolve_path(base_path, TrimEndMatchesQ(Eval(Cur.e, env).v.s)) \in DOMAIN FileSystem
LoadedText ==
    FileSystem[resolve_path(base_path, TrimEndMatchesQ(Eval(Cur.e, env).v.s))].text

\* C11: fail-safe turns only a read failure into Ok: a fail-safe Load of a
\* readable file returns Err when the substitution fails or the text does
\* not parse, and the Err of a loaded command passes its frame like that of
\* any other Load.
C11_FailSafeOnlyForRead ==
    /\ [][FailSafeReadable =>
            LET expanded == ShellExpand(StripShebang(LoadedText))
            IN  IF ~expanded.ok
                THEN status' = "unwinding" /\ error' = "substitution" /\ stack' = stack
                ELSE IF ~pretty_parse(expanded.text).ok
                THEN status' = "unwinding" /\ error' = "parse" /\ stack' = stack
                ELSE /\ status' = "running"
                     /\ Pop(stack') = stack
                     /\ stack'[Len(stack')].kind = "load"
                     /\ stack'[Len(stack')].fail_safe]_vars
    /\ [][(status = "unwinding" /\ stack # <<>> /\ Top.kind = "load" /\ Top.fail_safe) =>
            /\ status' = "unwinding" /\ error' = error
            /\ stack' = Pop(stack)]_vars

\* C11 witness: the caller ran Load("s/f?"); /x/s/f was read, its second
\* command failed, and the Err has left the frame of the fail-safe Load
C11_Witness ==
    /\ status = "unwinding" /\ error = "Cannot read"
    /\ Len(stack) = 1 /\ Top.kind = "top"
    /\ Cur = LoadText(<<"s", "/", "f", "?">>)
    /\ base_path = Sub
    /\ env["v"] = BoolV(FALSE)

\* C12: Func stores (params, body) under its name in place of any earlier
\* definition and leaves the definitions of the other names as they are; no
\* other command writes the function table, so each name maps to the pair
\* of its latest Func command.
C12_FuncOverwrites ==
    [][IF HasCur /\ Cur.op = "Func"
       THEN /\ DOMAIN func_env' = DOMAIN func_env \cup {Cur.name}
            /\ func_env'[Cur.name] = <<Cur.args, Cur.body>>
            /\ \A n \in DOMAIN func_env \ {Cur.name} : func_env'[n] = func_env[n]
       ELSE func_env' = func_env]_vars

\* C12 witness: /x/e has defined foo, bar and foo again; foo has the second
\* pair and bar its own
C12_Witness ==
    /\ status = "running" /\ stack # <<>>
    /\ Top.kind = "load" /\ Top.path = Dir \o << <<"e">> >> /\ Top.pc = 4
    /\ func_env["foo"] = << <<>>, <<CmdLet("v", tTrue)>> >>
    /\ func_env["bar"] = << <<"y">>, <<CmdLet("v", Var("y"))>> >>

\* the next command is a Show whose expression evaluates
ShowNext == HasCur /\ Cur.op = "Show" /\ Eval(Cur.val, env).ok
ShownV == Eval(Cur.val, env).v
\* the lines of a step that print a value
ValueLines(out) == SelectSeq(out, LAMBDA line : line.k \in {"value", "text"})

IdentityNext == HasCur /\ Cur.op = "Identity"

\* C14: after an Identity(name, config) that returns Ok, the cache entry of
\* name is the resolved identity, the agent signs with that identity, the
\* current identity is name, and the variable name is bound to the
\* principal of that identity.
C14_IdentityPostState ==
    [][(IdentityNext /\ status' = "running") =>
          /\ \E hw_ok \in BOOLEAN :
               LET r == ResolveIdentity(Cur.config, Cur.id, identity_map, base_path,
                                        next_key, hw_ok)
               IN  r.ok /\ r.identity = identity_map'[Cur.id]
          /\ agent_identity' = identity_map'[Cur.id]
          /\ current_identity' = Cur.id
          /\ env'[Cur.id] = PrincipalV(Sender(identity_map'[Cur.id]))]_vars

\* C14 witness: a was selected with a drawn key and then from the key file
\* /x/k, whose identity replaced the first in all four places
C14_Witness ==
    /\ status = "ok" /\ next_key = 1
    /\ identity_map = [n \in {"a"} |-> [kind |-> "secp", pub |-> 10]]
    /\ agent_identity = [kind |-> "secp", pub |-> 10]
    /\ current_identity = "a"
    /\ env["a"] = PrincipalV(10)

\* the next command is a Let or a Show whose expression evaluates: it binds
BindNext == HasCur /\ Cur.op \in {"Let", "Show"} /\ Eval(Cur.val, env).ok
BindId == IF Cur.op = "Show" THEN "_" ELSE Cur.id
BindV == Eval(Cur.val, env).v
CostId == "__cost_" \o BindId
\* the value is the result of a call and carries a cost
BindsCost == is_call(Cur.val) /\ BindV.t = "profiled"

\* C15: a bind leaves the name bound, and writes `__cost_` + name exactly
\* when the value is a call result that carries a cost: not for a call
\* result without one, and not for a value with one that is no call result.
C15_BindWritesCost ==
    [][BindNext =>
          /\ BindId \in DOMAIN env'
          /\ env'[BindId] = IF BindsCost THEN BindV.inner ELSE BindV
          /\ IF BindsCost
             THEN CostId \in DOMAIN env' /\ env'[CostId] = Int64V(BindV.cost)
             ELSE /\ CostId \in DOMAIN env' <=> CostId \in DOMAIN env
                  /\ CostId \in DOMAIN env => env'[CostId] = env[CostId]]_vars

\* C15 witness: x was bound to a value that carries a cost but is no call
\* result, and there is no __cost_x
C15_Witness ==
    /\ status = "running" /\ HasPrev
    /\ Prev = CmdLet("x", Lit(ProfiledV(NatV(5), 7)))
    /\ env["x"] = ProfiledV(NatV(5), 7)
    /\ "__cost_x" \notin DOMAIN env

\* the next command is an If whose condition evaluates
IfNext == HasCur /\ Cur.op = "If" /\ Eval(Cur.cond, env).ok
IfCondV == Eval(Cur.cond, env).v

\* C16: If evaluates its condition once and runs one branch: the commands
\* of then on true, those of else on false, and then returns; on a value
\* that is no boolean it fails with a type error and runs nothing.
C16_IfRunsOneBranch ==
    /\ [][IfNext =>
            IF IfCondV.t # "bool"
            THEN /\ status' = "unwinding"
                 /\ error' = "if condition is not a boolean expression"
                 /\ stack' = stack
                 /\ UNCHANGED session
            ELSE /\ status' = "running"
                 /\ stack' = Append(stack,
                        [kind |-> "if", pc |-> 1,
                         cmds |-> IF IfCondV.b THEN Cur.then ELSE Cur.else_])
                 /\ UNCHANGED session]_vars
    /\ [][(status = "running" /\ stack # <<>> /\ Top.kind = "if"
           /\ Len(stack') < Len(stack)) =>
            /\ Top.pc = Len(Top.cmds) + 1
            /\ stack' = Advance(Pop(stack))
            /\ status' = "running"]_vars

\* C16 witness: If(false, Body1, Body2) has run the one command of Body2
C16_Witness ==
    /\ status = "running" /\ Len(stack) = 2
    /\ stack[1].cmds[1] = CmdIf(tFalse, Body1, Body2)
    /\ Top.kind = "if" /\ Top.cmds = Body2 /\ Top.pc = 2
    /\ env["v"] = NatV(5)

\* the next command is a Load of a text whose file can be read
LoadReadable ==
    /\ HasCur /\ Cur.op = "Load"
    /\ Eval(Cur.e, env).ok
    /\ Eval(Cur.e, env).v.t = "text"
    /\ resolve_path(base_path, TrimEndMatchesQ(Eval(Cur.e, env).v.s)) \in DOMAIN FileSystem

\* the text without its first line: what follows the characters before the
\* first newline, nothing when there is no newline
FirstLineRemoved(text) ==
    IF \E i \in 1..Len(text) : text[i].ch = "nl"
    THEN SubSeq(text, (CHOOSE i \in 1..Len(text) :
                          /\ text[i].ch = "nl"
                          /\ \A j \in 1..(i - 1) : text[j].ch # "nl"), Len(text))
    ELSE <<>>

\* C17: a loaded text that begins with #! goes on to substitution and
\* parsing without its first line, also when the #! line is all there is and
\* no newline ends it; any other text goes on as it is.
C17_ShebangLineRemoved ==
    [][LoadReadable =>
          LET passed == IF StartsWithShebang(LoadedText)
                        THEN FirstLineRemoved(LoadedText) ELSE LoadedText
          IN  IF ~ShellExpand(passed).ok
              THEN status' = "unwinding" /\ error' = "substitution"
              ELSE IF ~pretty_parse(passed).ok
              THEN status' = "unwinding" /\ error' = "parse"
              ELSE /\ status' = "running"
                   /\ Pop(stack') = stack
                   /\ stack'[Len(stack')].cmds = pretty_parse(passed).cmds]_vars

\* C18: once an Identity command has returned Ok, the cache entry of the
\* current identity's name is the identity the agent signs with, also after
\* a later Identity command returned Err.
C18_CacheHoldsActiveSigner ==
    current_identity # "anon" =>
        /\ current_identity \in DOMAIN identity_map
        /\ identity_map[current_identity] = agent_identity

\* C19: an Identity(name, Pem) whose file holds a key of neither format, or
\* an Identity(name, Hsm) whose device does not open, returns Err and leaves
\* the cache, the agent's identity, the current identity and the bindings
\* as they were.
C19_FailedConstructionChangesNothing ==
    [][(IdentityNext /\ Cur.config.kind \in {"Pem", "Hsm"}) =>
          /\ (Cur.config.kind = "Pem"
              /\ resolve_path(base_path, Cur.config.path) \notin
                    {p \in DOMAIN FileSystem : FileSystem[p].pem \in {"secp", "basic"}})
             => status' = "unwinding" /\ error' = "identity"
          /\ (status' = "unwinding" /\ error' = "identity")
             => UNCHANGED <<identity_map, agent_identity, current_identity, env,
                            next_key, stack>>]_vars

\* C19 witness: a is selected with a drawn key; Identity("a", Pem("m")) has
\* failed, and a is cached, signed with and bound as before
C19_Witness ==
    /\ status = "unwinding" /\ error = "identity"
    /\ stack # <<>> /\ Cur = CmdIdentity("a", Pem(<<"m">>))
    /\ identity_map = [n \in {"a"} |-> [kind |-> "basic", pub |-> 1]]
    /\ agent_identity = [kind |-> "basic", pub |-> 1]
    /\ current_identity = "a"
    /\ env["a"] = PrincipalV(1)

\* C20: a bind of name changes no binding but those of name and of
\* `__cost_` + name, and a value without a cost leaves a cost bound under
\* `__cost_` + name before as it is.
C20_BindFrame ==
    [][BindNext =>
          /\ DOMAIN env \subseteq DOMAIN env'
          /\ DOMAIN env' \subseteq DOMAIN env \cup {BindId, CostId}
          /\ \A n \in DOMAIN env \ {BindId, CostId} : env'[n] = env[n]
          /\ (BindV.t # "profiled" /\ CostId \in DOMAIN env)
             => env'[CostId] = env[CostId]]_vars

\* C20 witness: x was bound to a call result with cost 7 and then to a call
\* result without a cost; __cost_x is still 7
C20_Witness ==
    /\ status = "running" /\ HasPrev
    /\ Prev = CmdLet("x", Call(NatV(6)))
    /\ env["x"] = NatV(6)
    /\ "__cost_x" \in DOMAIN env
    /\ env["__cost_x"] = Int64V(7)

====
